---- MODULE Spec2Model ----
(***************************************************************************)
(* Bit-banged ADC0832 driver (src/ADC0832.py): the module-level API        *)
(* setup / read / cleanup, the ADC0832Device wrapper, and the RPi.GPIO pin *)
(* controller they drive.                                                  *)
(*                                                                         *)
(* A call of the API is one action.  The pin operations a call performs    *)
(* are built as a list (the order of the GPIO.* and time.sleep calls in    *)
(* the source) and executed against the pin controller's state; the list   *)
(* of operations that took effect is kept in last.trace until the caller   *)
(* takes the result.                                                       *)
(*                                                                         *)
(* SpecSerial and SpecThreads run the same lists one pin operation per     *)
(* step, in threads that call setup and read: the pins' states during a    *)
(* call, and the interleavings of two calls, are states of these.          *)
(***************************************************************************)
EXTENDS Integers, Sequences, FiniteSets, TLC

VARIABLES
    CS_PIN, CLK_PIN, DIO_PIN,   \* module globals _CS_PIN, _CLK_PIN, _DIO_PIN
    gpio_mode,                  \* RPi.GPIO numbering mode: "UNSET" or "BCM"
    gpio_dir,                   \* RPi.GPIO direction of each pin: "none", "out", "in"
    gpio_lvl,                   \* level driven on each output pin (LOW when not an output)
    dev,                        \* each ADC0832Device object: "absent", "open", "closed"
    pc,                         \* the caller: "idle" or "returned"
    last,                       \* the call that has just completed (NoCall when idle)
    prev,                       \* the teardown call completed just before, if one was
    thr,                        \* each thread's call in progress, one pin operation at a time
    sched                       \* the threads' scheduling and the callers' lock

vars == <<CS_PIN, CLK_PIN, DIO_PIN, gpio_mode, gpio_dir, gpio_lvl, dev, pc, last, prev,
          thr, sched>>

(* ---------------------------- constants -------------------------------- *)

DefaultCS == 17
DefaultCLK == 18
DefaultDIO == 27
LOW == 0
HIGH == 1
ByteBits == 8

\* The converter's second sample may differ from its first in this many
\* low-order bits (SpecSample).
MaxNoiseBits == 2
\* Channel arguments tried are 0..MaxChannel.
MaxChannel == 2
\* A thread inside a call is preempted by another thread at most this many
\* times while calls overlap (SpecThreads).
MaxSwitches == 2

\* the pins <<cs, clk, dio>> of a second converter, on a bus of its own
OtherBus == << 22, 23, 24 >>

Pins == {DefaultCS, DefaultCLK, DefaultDIO} \cup { OtherBus[i] : i \in 1..3 }
Devices == {"A", "B"}
Threads == {"T1", "T2"}
Channels == 0..MaxChannel
Bit == {LOW, HIGH}

(* ------------------------ the operations' lists ------------------------ *)

Op(o, role, level) == [op |-> o, pin |-> role, level |-> level]
Sleep == Op("sleep", "none", 0)
Output(role, level) == Op("output", role, level)
Input(role) == Op("input", role, 0)

\* _pin_mode_output: GPIO.setup(pin, GPIO.OUT, initial=GPIO.LOW)
PinModeOutput(role) == Op("setup_out", role, LOW)

\* _pin_mode_input: GPIO.setup(pin, GPIO.IN)
PinModeInput(role) == Op("setup_in", role, 0)

\* the pins configured and left at the level GPIO.setup gave them
SetupOpsNoIdle(warn) ==
    << Op("setwarnings", "none", IF warn THEN 1 ELSE 0),
       Op("setmode", "none", 0),
       PinModeOutput("cs"), PinModeOutput("clk"), PinModeOutput("dio"),
       Sleep >>

\* setup(): everything after the globals are assigned
SetupOps(warn) ==
    << Op("setwarnings", "none", IF warn THEN 1 ELSE 0),
       Op("setmode", "none", 0),
       PinModeOutput("cs"), PinModeOutput("clk"), PinModeOutput("dio"),
       Output("cs", HIGH), Output("clk", LOW), Output("dio", LOW),
       Sleep >>

\* the idle levels driven before the release
CleanupOpsDriveIdle ==
    << Output("cs", HIGH), Output("clk", LOW), Output("dio", LOW),
       Op("cleanup", "none", 0) >>

\* cleanup(): the call of GPIO.cleanup()
CleanupOps == << Op("cleanup", "none", 0) >>

\* the clock lowered without holding it high for a delay
ClockPulseNoHold == << Output("clk", HIGH), Output("clk", LOW), Sleep, Sleep >>

ClockPulse == << Output("clk", HIGH), Sleep, Output("clk", LOW), Sleep >>

\* the start bit left out
StartSequenceNoStartBit(channel) ==
    << PinModeOutput("dio"), Output("cs", LOW), Output("clk", LOW), Sleep >>
    \o << Output("dio", HIGH) >> \o ClockPulse
    \o << Output("dio", IF channel # 0 THEN HIGH ELSE LOW) >> \o ClockPulse
    \o << PinModeInput("dio"), Sleep >>

\* the mode bit sent as 0 (differential)
StartSequenceDifferential(channel) ==
    << PinModeOutput("dio"), Output("cs", LOW), Output("clk", LOW), Sleep >>
    \o << Output("dio", HIGH) >> \o ClockPulse
    \o << Output("dio", LOW) >> \o ClockPulse
    \o << Output("dio", IF channel # 0 THEN HIGH ELSE LOW) >> \o ClockPulse
    \o << PinModeInput("dio"), Sleep >>

\* the data pin driven without making it an output first
StartSequenceNoModeSwitch(channel) ==
    << Output("cs", LOW), Output("clk", LOW), Sleep >>
    \o << Output("dio", HIGH) >> \o ClockPulse
    \o << Output("dio", HIGH) >> \o ClockPulse
    \o << Output("dio", IF channel # 0 THEN HIGH ELSE LOW) >> \o ClockPulse
    \o << PinModeInput("dio"), Sleep >>

StartSequence(channel) ==
    << PinModeOutput("dio"), Output("cs", LOW), Output("clk", LOW), Sleep >>
    \o << Output("dio", HIGH) >> \o ClockPulse
    \o << Output("dio", HIGH) >> \o ClockPulse
    \o << Output("dio", IF channel # 0 THEN HIGH ELSE LOW) >> \o ClockPulse
    \o << PinModeInput("dio"), Sleep >>

\* the data pin sampled after the clock was lowered
ReadBitOpsSampleLow == << Output("clk", HIGH), Sleep, Output("clk", LOW), Input("dio"), Sleep >>

\* one iteration of the loop of _read_byte_msb_first
ReadBitOps == << Output("clk", HIGH), Sleep, Input("dio"), Output("clk", LOW), Sleep >>

RECURSIVE Repeat(_, _)
Repeat(ops, n) == IF n = 0 THEN << >> ELSE ops \o Repeat(ops, n - 1)

\* the pin operations of _read_byte_msb_first
ReadByteOps == Repeat(ReadBitOps, ByteBits)

\* value = (value << 1) | bit
ShiftIn(value, bit) == value * 2 + (bit % 2)

\* the bits taken least significant first
RECURSIVE ReadByteValueLsbFirst(_, _)
ReadByteValueLsbFirst(value, bits) ==
    IF bits = << >> THEN value
    ELSE ShiftIn(ReadByteValueLsbFirst(value, Tail(bits)), Head(bits))

\* the value _read_byte_msb_first returns for the bits it sampled, in order
RECURSIVE ReadByteValue(_, _)
ReadByteValue(value, bits) ==
    IF bits = << >> THEN value
    ELSE ReadByteValue(ShiftIn(value, Head(bits)), Tail(bits))

\* the transaction left without raising chip-select
ReadOpsNoDeselect(channel) ==
    << Output("cs", LOW), Output("clk", LOW), Sleep >>
    \o StartSequence(channel)
    \o ReadByteOps
    \o << Output("clk", HIGH), Sleep, Output("clk", LOW), Sleep >>
    \o ReadByteOps
    \o << Sleep >>

\* chip-select raised after the first sample instead of after the second
ReadOpsEarlyDeselect(channel) ==
    << Output("cs", LOW), Output("clk", LOW), Sleep >>
    \o StartSequence(channel)
    \o ReadByteOps
    \o << Output("cs", HIGH), Sleep >>
    \o << Output("clk", HIGH), Sleep, Output("clk", LOW), Sleep >>
    \o ReadByteOps

\* the pin operations of read(), for a channel that passed the check
ReadOps(channel) ==
    << Output("cs", LOW), Output("clk", LOW), Sleep >>
    \o StartSequence(channel)
    \o ReadByteOps
    \o << Output("clk", HIGH), Sleep, Output("clk", LOW), Sleep >>
    \o ReadByteOps
    \o << Output("cs", HIGH), Sleep >>

ChannelValidUpTo2(channel) == channel \in {0, 1, 2}

\* channel not in (0, 1)
ChannelValid(channel) == channel \in {0, 1}

Min(a, b) == IF a < b THEN a ELSE b
Max(a, b) == IF a > b THEN a ELSE b

ReconcileSentinel(dat1, dat2) ==
    IF dat1 = dat2 THEN dat1 % 256 ELSE 0

\* the result of read() without return_both
Reconcile(dat1, dat2) ==
    IF dat1 = dat2 THEN dat1 % 256 ELSE Max(0, Min(255, dat1))

\* the result of read(): a 1-tuple, or the pair when return_both
ReadResult(dat1, dat2, both) ==
    IF both THEN << dat1 % 256, dat2 % 256 >> ELSE << Reconcile(dat1, dat2) >>

(* --------------------- the pin controller (RPi.GPIO) ------------------- *)

\* The pin controller as a call sees it: numbering mode, the pins'
\* directions and output levels, the number of operations of the call that
\* took effect, the bits the converter will present on the data line, the
\* bits sampled, the exception raised ("none" while running), and what
\* GPIO.cleanup() will do when called ("ok", "raise_before", "raise_after"
\* the release).
Machine(din, rel) ==
    [mode |-> gpio_mode, dir |-> gpio_dir, lvl |-> gpio_lvl,
     n |-> 0, din |-> din, got |-> << >>, exc |-> "none", rel |-> rel]

\* the pin number a role stands for at the time of the call
PinOf(role, P) ==
    CASE role = "clk" -> P.clk
      [] role = "dio" -> P.dio
      [] role = "cs" -> P.cs
      [] OTHER -> 0

Raise(m, e) == [m EXCEPT !.exc = e]

Released(m) ==
    [m EXCEPT !.mode = "UNSET",
              !.dir = [q \in Pins |-> "none"],
              !.lvl = [q \in Pins |-> LOW],
              !.n = @ + 1]

\* One GPIO.* or time.sleep call.  RPi.GPIO refuses setup/output/input
\* before setmode, output on a pin that is not an output, and input on a
\* pin that was never set up.
GpioStep(m, o, P) ==
    LET p == PinOf(o.pin, P) IN
    CASE o.op = "sleep" -> [m EXCEPT !.n = @ + 1]
      [] o.op = "output" ->
            IF m.mode = "UNSET" \/ m.dir[p] # "out" THEN Raise(m, "RuntimeError")
            ELSE [m EXCEPT !.lvl[p] = o.level, !.n = @ + 1]
      [] o.op = "input" ->
            IF m.mode = "UNSET" \/ m.dir[p] = "none" THEN Raise(m, "RuntimeError")
            ELSE IF m.dir[p] = "out"
                 THEN [m EXCEPT !.got = Append(@, m.lvl[p]), !.n = @ + 1]
                 ELSE [m EXCEPT !.got = Append(@, Head(m.din)), !.din = Tail(@),
                                !.n = @ + 1]
      [] o.op = "setup_out" ->
            IF m.mode = "UNSET" THEN Raise(m, "RuntimeError")
            ELSE [m EXCEPT !.dir[p] = "out", !.lvl[p] = o.level, !.n = @ + 1]
      [] o.op = "setup_in" ->
            IF m.mode = "UNSET" THEN Raise(m, "RuntimeError")
            ELSE [m EXCEPT !.dir[p] = "in", !.lvl[p] = LOW, !.n = @ + 1]
      [] o.op = "setwarnings" -> [m EXCEPT !.n = @ + 1]
      [] o.op = "setmode" -> [m EXCEPT !.mode = "BCM", !.n = @ + 1]
      [] o.op = "cleanup" ->
            CASE m.rel = "ok" -> Released(m)
              [] m.rel = "raise_before" -> Raise(m, "Exception")
              [] OTHER -> Raise(Released(m), "Exception")

\* the calls of a list in order, up to the first one that raises
RECURSIVE Run(_, _, _)
Run(ops, m, P) ==
    IF ops = << >> \/ m.exc # "none" THEN m
    ELSE Run(Tail(ops), GpioStep(m, Head(ops), P), P)

\* the operations of a list that took effect, as the pins saw them
Trace(ops, n, P) ==
    [i \in 1..n |-> [op |-> ops[i].op, pin |-> PinOf(ops[i].pin, P), level |-> ops[i].level]]

(* ------------------------------ the calls ------------------------------ *)

Globals == [cs |-> CS_PIN, clk |-> CLK_PIN, dio |-> DIO_PIN]

NoCall ==
    [op |-> "none", dev |-> "none", channel |-> 0, both |-> FALSE,
     exc |-> "none", value |-> << >>, trace |-> << >>, got |-> << >>,
     caught |-> FALSE, changed |-> FALSE, pins |-> << >>,
     before |-> [mode |-> "UNSET", pins |-> << >>]]

\* the record of a call: what was called, the exception raised to the
\* caller, the value returned, the pin operations that took effect, the
\* bits sampled, whether an exception was swallowed, whether the call left
\* any pin's direction or level, or the numbering mode, changed, and the
\* pins the call was given or found in the globals, as <<cs, clk, dio>>,
\* with the numbering mode and the globals as they were when it was made
Call(o, d, channel, both, r) ==
    [op |-> o, dev |-> d, channel |-> channel, both |-> both,
     exc |-> r.exc, value |-> r.value, trace |-> Trace(r.ops, r.m.n, r.P),
     got |-> r.m.got, caught |-> r.caught,
     changed |-> (r.m.mode # gpio_mode \/ r.m.dir # gpio_dir \/ r.m.lvl # gpio_lvl),
     pins |-> << r.P.cs, r.P.clk, r.P.dio >>,
     before |-> [mode |-> gpio_mode, pins |-> << CS_PIN, CLK_PIN, DIO_PIN >>]]

\* the call returns (or raises) and leaves the pin controller as r.m has it
Complete(o, d, channel, both, r) ==
    /\ gpio_mode' = r.m.mode
    /\ gpio_dir' = r.m.dir
    /\ gpio_lvl' = r.m.lvl
    /\ last' = Call(o, d, channel, both, r)
    /\ pc' = "returned"
    /\ UNCHANGED <<prev, thr, sched>>

Outcome(m, exc, value, ops, P, caught) ==
    [m |-> m, exc |-> exc, value |-> value, ops |-> ops, P |-> P, caught |-> caught]

\* what read() returns once its pin operations have left the pin controller as m
ReadOutcome(m, both, ops, P) ==
    IF m.exc # "none"
    THEN Outcome(m, m.exc, << >>, ops, P, FALSE)
    ELSE LET dat1 == ReadByteValue(0, SubSeq(m.got, 1, ByteBits))
             dat2 == ReadByteValue(0, SubSeq(m.got, ByteBits + 1, 2 * ByteBits))
         IN Outcome(m, "none", ReadResult(dat1, dat2, both), ops, P, FALSE)

\* the channel not looked at when return_both is set
ReadCallBothUnchecked(channel, both, m0, P) ==
    IF ~both /\ ~ChannelValid(channel)
    THEN Outcome(m0, "ValueError", << >>, << >>, P, FALSE)
    ELSE CHOOSE r \in { ReadOutcome(m, both, ReadOps(channel), P) :
                          m \in { Run(ReadOps(channel), m0, P) } } : TRUE

\* the channel checked after the transaction
ReadCallLateCheck(channel, both, m0, P) ==
    CHOOSE r \in { IF ChannelValid(channel) \/ m.exc # "none"
                   THEN ReadOutcome(m, both, ReadOps(channel), P)
                   ELSE Outcome(m, "ValueError", << >>, ReadOps(channel), P, FALSE) :
                     m \in { Run(ReadOps(channel), m0, P) } } : TRUE

\* read(channel, return_both=both) on pin controller m0 with the globals P
ReadCall(channel, both, m0, P) ==
    IF ~ChannelValid(channel)
    THEN Outcome(m0, "ValueError", << >>, << >>, P, FALSE)
    ELSE CHOOSE r \in { ReadOutcome(m, both, ReadOps(channel), P) :
                          m \in { Run(ReadOps(channel), m0, P) } } : TRUE

\* the exception of GPIO.cleanup() passed on to the caller
CleanupCallPropagates(m0, P) ==
    CHOOSE r \in { Outcome(m, m.exc, << >>, CleanupOps, P, FALSE) :
                     m \in { Run(CleanupOps, m0, P) } } : TRUE

\* cleanup() on pin controller m0: an exception of GPIO.cleanup() is swallowed
CleanupCall(m0, P) ==
    CHOOSE r \in { Outcome(Raise(m, "none"), "none", << >>, CleanupOps, P, m.exc # "none") :
                     m \in { Run(CleanupOps, m0, P) } } : TRUE

\* setup(cs, clk, dio, warn) on pin controller m0, after the globals are assigned
SetupCall(warn, m0, P) ==
    CHOOSE r \in { Outcome(m, m.exc, << >>, SetupOps(warn), P, FALSE) :
                     m \in { Run(SetupOps(warn), m0, P) } } : TRUE

\* setup(cs, clk, dio, warn)
Setup(cs, clk, dio, warn) ==
    /\ pc = "idle"
    /\ CS_PIN' = cs /\ CLK_PIN' = clk /\ DIO_PIN' = dio
    /\ \E r \in { SetupCall(warn, Machine(<< >>, "ok"), [cs |-> cs, clk |-> clk, dio |-> dio]) } :
            Complete("setup", "none", 0, FALSE, r)
    /\ UNCHANGED dev

\* cleanup()
Cleanup(rel) ==
    /\ pc = "idle"
    /\ \E r \in { CleanupCall(Machine(<< >>, rel), Globals) } :
            Complete("cleanup", "none", 0, FALSE, r)
    /\ UNCHANGED <<CS_PIN, CLK_PIN, DIO_PIN, dev>>

\* read(channel, return_both=both), the converter presenting the bits din
Read(channel, both, din) ==
    /\ pc = "idle"
    /\ \E r \in { ReadCall(channel, both, Machine(din, "ok"), Globals) } :
            Complete("read", "none", channel, both, r)
    /\ UNCHANGED <<CS_PIN, CLK_PIN, DIO_PIN, dev>>

\* d = ADC0832Device(cs, clk, dio, warn)
DevInit(d, cs, clk, dio, warn) ==
    /\ pc = "idle"
    /\ dev[d] = "absent"
    /\ CS_PIN' = cs /\ CLK_PIN' = clk /\ DIO_PIN' = dio
    /\ \E r \in { SetupCall(warn, Machine(<< >>, "ok"), [cs |-> cs, clk |-> clk, dio |-> dio]) } :
          /\ Complete("dev_init", d, 0, FALSE, r)
          /\ dev' = IF r.exc = "none" THEN [dev EXCEPT ![d] = "open"] ELSE dev

\* the read made without looking at _closed
DevReadAnyUnchecked(d, o, channel, both, din) ==
    /\ pc = "idle"
    /\ dev[d] # "absent"
    /\ \E r \in { ReadCall(channel, both, Machine(din, "ok"), Globals) } :
            Complete(o, d, channel, both, r)
    /\ UNCHANGED <<CS_PIN, CLK_PIN, DIO_PIN, dev>>

\* d.read(channel) (both = FALSE) and d.read_both(channel) (both = TRUE) on
\* pin controller m0 with the globals P
DevReadCall(d, channel, both, m0, P) ==
    IF dev[d] = "closed"
    THEN Outcome(m0, "RuntimeError", << >>, << >>, P, FALSE)
    ELSE ReadCall(channel, both, m0, P)

\* d.read(channel) and d.read_both(channel)
DevReadAny(d, o, channel, both, din) ==
    /\ pc = "idle"
    /\ dev[d] # "absent"
    /\ \E r \in { DevReadCall(d, channel, both, Machine(din, "ok"), Globals) } :
            Complete(o, d, channel, both, r)
    /\ UNCHANGED <<CS_PIN, CLK_PIN, DIO_PIN, dev>>

DevRead(d, channel, din) == DevReadAny(d, "dev_read", channel, FALSE, din)

DevReadBoth(d, channel, din) == DevReadAny(d, "dev_read_both", channel, TRUE, din)

\* the release called without looking at _closed
DevCloseUnchecked(d, rel) ==
    /\ pc = "idle"
    /\ dev[d] # "absent"
    /\ \E r \in { CleanupCall(Machine(<< >>, rel), Globals) } :
            Complete("dev_close", d, 0, FALSE, r)
    /\ dev' = [dev EXCEPT ![d] = "closed"]
    /\ UNCHANGED <<CS_PIN, CLK_PIN, DIO_PIN>>

\* d.close(), called by the user (o = "dev_close") or by __exit__
\* (o = "dev_exit"); _closed is set once cleanup() has returned
DevCloseAny(d, o, rel) ==
    /\ pc = "idle"
    /\ dev[d] # "absent"
    /\ \E r \in { IF dev[d] = "closed"
                  THEN Outcome(Machine(<< >>, rel), "none", << >>, << >>, Globals, FALSE)
                  ELSE CleanupCall(Machine(<< >>, rel), Globals) } :
          /\ Complete(o, d, 0, FALSE, r)
          /\ dev' = IF r.exc = "none" THEN [dev EXCEPT ![d] = "closed"] ELSE dev
    /\ UNCHANGED <<CS_PIN, CLK_PIN, DIO_PIN>>

\* d.close()
DevClose(d, rel) == DevCloseAny(d, "dev_close", rel)

\* d.__exit__(exc_type, exc, tb), at the end of a with-block over d
DevExit(d, rel) == DevCloseAny(d, "dev_exit", rel)

\* the caller takes the result and is ready for its next call
Return ==
    /\ pc = "returned"
    /\ pc' = "idle"
    /\ prev' = IF last.op \in {"cleanup", "dev_close"}
               THEN [op |-> last.op, dev |-> last.dev, caught |-> last.caught]
               ELSE [op |-> "none", dev |-> "none", caught |-> FALSE]
    /\ last' = NoCall
    /\ UNCHANGED <<CS_PIN, CLK_PIN, DIO_PIN, gpio_mode, gpio_dir, gpio_lvl, dev, thr, sched>>

(* ------------------- calls run one operation per step ------------------ *)

\* of a call's record: the exception, the value, the bits sampled, the
\* number of pin operations that took effect, the pins and what was in
\* effect before
Summary(call) ==
    [exc |-> call.exc, value |-> call.value, got |-> call.got,
     n |-> Len(call.trace), pins |-> call.pins, before |-> call.before]

\* a thread that is not inside a call
IdleThread ==
    [phase |-> "idle", op |-> "none", channel |-> 0, both |-> FALSE, at |-> 0,
     din |-> << >>, got |-> << >>, exc |-> "none", value |-> << >>,
     hit |-> FALSE, alone |-> Summary(NoCall)]

\* the pin operations of the call a thread is in
OpsOf(c) == IF c.op = "read" THEN ReadOps(c.channel) ELSE SetupOps(FALSE)

\* the position of the write that raises chip-select at the end of read()
Deselect(c) == Len(OpsOf(c)) - 1

\* the thread is inside read() between its first chip-select low and its
\* chip-select high
InTransaction(c) ==
    c.phase = "running" /\ c.op = "read" /\ c.at >= 1 /\ c.at < Deselect(c)

\* the pin controller as the thread's next operation finds it
ThreadMachine(c) ==
    [mode |-> gpio_mode, dir |-> gpio_dir, lvl |-> gpio_lvl,
     n |-> c.at, din |-> c.din, got |-> c.got, exc |-> "none", rel |-> "ok"]

\* the callers' lock is free, or the callers use none
LockFree == ~sched.locking \/ sched.lock = "none"

\* thread t takes the processor from a thread that is inside a call
Preempts(t) ==
    sched.cur \notin {"none", t} /\ thr[sched.cur].phase = "running"

CanRun(t) == Preempts(t) => sched.switches < MaxSwitches

Scheduled(t) ==
    [sched EXCEPT !.cur = t,
                  !.switches = IF Preempts(t) THEN @ + 1 ELSE @]

\* thread t calls setup(cs, clk, dio): the globals are assigned (line 77).
\* alone keeps the pins given and what was in effect before the call.
ThreadSetup(t, cs, clk, dio) ==
    /\ pc = "idle" /\ thr[t].phase = "idle"
    /\ LockFree /\ CanRun(t)
    /\ CS_PIN' = cs /\ CLK_PIN' = clk /\ DIO_PIN' = dio
    /\ thr' = [thr EXCEPT ![t] =
                  [IdleThread EXCEPT
                      !.phase = "running", !.op = "setup",
                      !.alone = [Summary(NoCall) EXCEPT
                                    !.pins = << cs, clk, dio >>,
                                    !.before = [mode |-> gpio_mode,
                                                pins |-> << CS_PIN, CLK_PIN, DIO_PIN >>]]]]
    /\ sched' = [Scheduled(t) EXCEPT !.lock = IF sched.locking THEN t ELSE @,
                                     !.readers = {}]
    /\ UNCHANGED <<gpio_mode, gpio_dir, gpio_lvl, dev, pc, last, prev>>

\* the call made without taking the callers' lock
ThreadReadNoLock(t, channel, both, din) ==
    /\ pc = "idle" /\ thr[t].phase = "idle"
    /\ CanRun(t)
    /\ \E r \in { ReadCall(channel, both, Machine(din, "ok"), Globals) } :
         thr' = [thr EXCEPT ![t] =
                    [IdleThread EXCEPT
                        !.phase = IF ChannelValid(channel) THEN "running" ELSE "done",
                        !.exc = IF ChannelValid(channel) THEN "none" ELSE "ValueError",
                        !.op = "read", !.channel = channel, !.both = both, !.din = din,
                        !.alone = Summary(Call("read", "none", channel, both, r))]]
    /\ sched' = [Scheduled(t) EXCEPT !.readers = @ \cup {t}]
    /\ UNCHANGED <<CS_PIN, CLK_PIN, DIO_PIN, gpio_mode, gpio_dir, gpio_lvl, dev, pc, last, prev>>

\* thread t calls read(channel, return_both=both): the channel is checked.
\* alone is what the same call does when nothing runs beside it.
ThreadRead(t, channel, both, din) ==
    /\ pc = "idle" /\ thr[t].phase = "idle"
    /\ LockFree /\ CanRun(t)
    /\ \E r \in { ReadCall(channel, both, Machine(din, "ok"), Globals) } :
         thr' = [thr EXCEPT ![t] =
                    [IdleThread EXCEPT
                        !.phase = IF ChannelValid(channel) THEN "running" ELSE "done",
                        !.exc = IF ChannelValid(channel) THEN "none" ELSE "ValueError",
                        !.op = "read", !.channel = channel, !.both = both, !.din = din,
                        !.alone = Summary(Call("read", "none", channel, both, r))]]
    /\ sched' = [Scheduled(t) EXCEPT !.lock = IF sched.locking THEN t ELSE @,
                                     !.readers = @ \cup {t}]
    /\ UNCHANGED <<CS_PIN, CLK_PIN, DIO_PIN, gpio_mode, gpio_dir, gpio_lvl, dev, pc, last, prev>>

\* what the call of thread t has become after its next operation left the
\* pin controller as m
Stepped(c, m) ==
    IF m.exc # "none"
    THEN [c EXCEPT !.phase = "done", !.exc = m.exc]
    ELSE IF m.n < Len(OpsOf(c))
    THEN [c EXCEPT !.at = m.n, !.din = m.din, !.got = m.got]
    ELSE [c EXCEPT !.phase = "done", !.at = m.n, !.din = m.din, !.got = m.got,
                   !.value = IF c.op = "read"
                             THEN ReadOutcome(m, c.both, OpsOf(c), Globals).value
                             ELSE << >>]

\* thread t performs the next GPIO.* or time.sleep call of its call; a
\* thread that has chip-select asserted meanwhile has its transaction hit
\* when the call touches a pin
ThreadStep(t) ==
    /\ thr[t].phase = "running"
    /\ CanRun(t)
    /\ \E o \in { OpsOf(thr[t])[thr[t].at + 1] } :
       \E m \in { GpioStep(ThreadMachine(thr[t]), o, Globals) } :
         /\ gpio_mode' = m.mode /\ gpio_dir' = m.dir /\ gpio_lvl' = m.lvl
         /\ thr' = [u \in Threads |->
                      IF u = t THEN Stepped(thr[t], m)
                      ELSE IF InTransaction(thr[u]) /\ o.op # "sleep" /\ m.exc = "none"
                           THEN [thr[u] EXCEPT !.hit = TRUE]
                           ELSE thr[u]]
    /\ sched' = Scheduled(t)
    /\ UNCHANGED <<CS_PIN, CLK_PIN, DIO_PIN, dev, pc, last, prev>>

\* the call of thread t returns or raises to its caller, which gives up the
\* lock if it uses one; the count of preemptions starts again once no
\* thread is inside a call
ThreadReturn(t) ==
    /\ thr[t].phase = "done"
    /\ thr' = [thr EXCEPT ![t] = IdleThread]
    /\ sched' = [sched EXCEPT
                    !.lock = IF @ = t THEN "none" ELSE @,
                    !.cur = IF @ = t THEN "none" ELSE @,
                    !.switches = IF \A u \in Threads \ {t} : thr[u].phase = "idle"
                                 THEN 0 ELSE @]
    /\ UNCHANGED <<CS_PIN, CLK_PIN, DIO_PIN, gpio_mode, gpio_dir, gpio_lvl, dev, pc, last, prev>>

(* --------------------------- specifications ---------------------------- *)

\* the bits the converter presents in the lifecycle specification
\* (10110010 twice, and 10110010 followed by 01111111)
TestStreams ==
    { <<1, 0, 1, 1, 0, 0, 1, 0>> \o <<1, 0, 1, 1, 0, 0, 1, 0>>,
      <<1, 0, 1, 1, 0, 0, 1, 0>> \o <<0, 1, 1, 1, 1, 1, 1, 1>> }

\* the pin assignments tried: the default one, one that moves every line to
\* another pin, and one for each way of not being pairwise distinct
PinChoices ==
    { <<DefaultCS, DefaultCLK, DefaultDIO>>, <<DefaultCLK, DefaultDIO, DefaultCS>>,
      <<DefaultCS, DefaultCS, DefaultDIO>>, <<DefaultCS, DefaultCLK, DefaultCS>>,
      <<DefaultCS, DefaultCLK, DefaultCLK>>, <<DefaultCS, DefaultCS, DefaultCS>> }

\* every first sample, each with every second sample that agrees with it
\* on all but the last MaxNoiseBits bits
Bytes == [1..ByteBits -> Bit]
SampleStreams ==
    { [i \in 1..(2 * ByteBits) |-> IF i <= ByteBits THEN s[1][i] ELSE s[2][i - ByteBits]] :
        s \in { t \in Bytes \X Bytes :
                    \A i \in 1..ByteBits : i + MaxNoiseBits <= ByteBits => t[1][i] = t[2][i] } }

ReleaseOutcomes == {"ok", "raise_before", "raise_after"}

Init ==
    /\ CS_PIN = DefaultCS /\ CLK_PIN = DefaultCLK /\ DIO_PIN = DefaultDIO
    /\ gpio_mode = "UNSET"
    /\ gpio_dir = [q \in Pins |-> "none"]
    /\ gpio_lvl = [q \in Pins |-> LOW]
    /\ dev = [d \in Devices |-> "absent"]
    /\ pc = "idle"
    /\ last = NoCall
    /\ prev = [op |-> "none", dev |-> "none", caught |-> FALSE]
    /\ thr = [t \in Threads |-> IdleThread]
    /\ sched = [locking |-> TRUE, lock |-> "none", cur |-> "none", switches |-> 0,
                readers |-> {}]

Next ==
    \/ \E a \in PinChoices, warn \in BOOLEAN : Setup(a[1], a[2], a[3], warn)
    \/ \E rel \in ReleaseOutcomes : Cleanup(rel)
    \/ \E c \in Channels, both \in BOOLEAN, din \in TestStreams : Read(c, both, din)
    \/ \E d \in Devices, a \in PinChoices, warn \in BOOLEAN : DevInit(d, a[1], a[2], a[3], warn)
    \/ \E d \in Devices, c \in Channels, din \in TestStreams : DevRead(d, c, din)
    \/ \E d \in Devices, c \in Channels, din \in TestStreams : DevReadBoth(d, c, din)
    \/ \E d \in Devices, rel \in ReleaseOutcomes : DevClose(d, rel)
    \/ \E d \in Devices, rel \in ReleaseOutcomes : DevExit(d, rel)
    \/ Return

Spec == Init /\ [][Next]_vars

\* one bus on the default pins, every sample the converter can present
NextSample ==
    \/ Setup(DefaultCS, DefaultCLK, DefaultDIO, FALSE)
    \/ \E c \in Channels, both \in BOOLEAN, din \in SampleStreams : Read(c, both, din)
    \/ Return

SpecSample == Init /\ [][NextSample]_vars

\* the pins each device is created on when each has a bus of its own
BusOf == [d \in Devices |-> IF d = "A" THEN << DefaultCS, DefaultCLK, DefaultDIO >> ELSE OtherBus]

\* two devices, each created once on its own bus, read and closed in any order
NextBuses ==
    \/ \E d \in Devices, warn \in BOOLEAN :
          DevInit(d, BusOf[d][1], BusOf[d][2], BusOf[d][3], warn)
    \/ \E d \in Devices, c \in Channels, din \in TestStreams : DevRead(d, c, din)
    \/ \E d \in Devices, c \in Channels, din \in TestStreams : DevReadBoth(d, c, din)
    \/ \E d \in Devices, rel \in ReleaseOutcomes : DevClose(d, rel)
    \/ \E d \in Devices, rel \in ReleaseOutcomes : DevExit(d, rel)
    \/ Return

SpecBuses == Init /\ [][NextBuses]_vars

\* the pin assignments the threads set up: the default one and one that
\* moves every line to another pin
SerialPinChoices ==
    { <<DefaultCS, DefaultCLK, DefaultDIO>>, <<DefaultCLK, DefaultDIO, DefaultCS>> }

\* threads that call setup and read under the callers' lock, so that one
\* call runs at a time, each call one pin operation per step
NextSerial ==
    \/ \E t \in Threads, a \in SerialPinChoices : ThreadSetup(t, a[1], a[2], a[3])
    \/ \E t \in Threads, c \in Channels, both \in BOOLEAN, din \in TestStreams :
          ThreadRead(t, c, both, din)
    \/ \E t \in Threads : ThreadStep(t)
    \/ \E t \in Threads : ThreadReturn(t)

SpecSerial == Init /\ [][NextSerial]_vars

\* a call that has started goes on, and a call that has ended returns
FairSerial == \A t \in Threads : WF_vars(ThreadStep(t)) /\ WF_vars(ThreadReturn(t))

SpecSerialFair == SpecSerial /\ FairSerial

\* the bits the converter presents to each read of the threads
ThreadStream == << 1, 0, 1, 1, 0, 0, 1, 0 >> \o << 1, 0, 1, 1, 0, 0, 1, 0 >>

\* the callers either all use the lock or none does
InitThreads ==
    /\ CS_PIN = DefaultCS /\ CLK_PIN = DefaultCLK /\ DIO_PIN = DefaultDIO
    /\ gpio_mode = "UNSET"
    /\ gpio_dir = [q \in Pins |-> "none"]
    /\ gpio_lvl = [q \in Pins |-> LOW]
    /\ dev = [d \in Devices |-> "absent"]
    /\ pc = "idle"
    /\ last = NoCall
    /\ prev = [op |-> "none", dev |-> "none", caught |-> FALSE]
    /\ thr = [t \in Threads |-> IdleThread]
    /\ \E locking \in BOOLEAN :
          sched = [locking |-> locking, lock |-> "none", cur |-> "none", switches |-> 0,
                   readers |-> {}]

\* the channel each thread reads
ChannelOf == [t \in Threads |-> IF t = "T1" THEN 0 ELSE 1]

\* setup called by the main thread while no call is in progress
MainSetup(t) ==
    /\ \A u \in Threads : thr[u].phase = "idle"
    /\ ThreadSetup(t, DefaultCS, DefaultCLK, DefaultDIO)

\* a thread started after a setup reads its channel once, with or without
\* the lock
WorkerRead(t) ==
    /\ gpio_mode = "BCM"
    /\ t \notin sched.readers
    /\ \A u \in Threads : thr[u].op # "setup"
    /\ ThreadRead(t, ChannelOf[t], FALSE, ThreadStream)

NextThreads ==
    \/ \E t \in Threads : MainSetup(t)
    \/ \E t \in Threads : WorkerRead(t)
    \/ \E t \in Threads : ThreadStep(t)
    \/ \E t \in Threads : ThreadReturn(t)

SpecThreads == InitThreads /\ [][NextThreads]_vars

(* ------------------------------- claims -------------------------------- *)

ReadNames == {"read", "dev_read", "dev_read_both"}
SetupNames == {"setup", "dev_init"}
TeardownNames == {"cleanup", "dev_close"}

\* a call of one of these operations has just completed
Returned(names) == pc = "returned" /\ last.op \in names

DistinctPins == CS_PIN # CLK_PIN /\ CS_PIN # DIO_PIN /\ CLK_PIN # DIO_PIN

\* a setup on three distinct pins is in effect (the pins are not released)
SetUp == gpio_mode = "BCM" /\ DistinctPins

\* the call was made on the module, or on a device that is open
DeviceOpen == last.dev = "none" \/ dev[last.dev] = "open"

\* the first and the second 8 bits the data pin returned
First == SubSeq(last.got, 1, 8)
Second == SubSeq(last.got, 9, 16)

\* b[1] as the most significant bit, b[8] as the least significant
MsbFirst(b) ==
    b[1] * 128 + b[2] * 64 + b[3] * 32 + b[4] * 16 + b[5] * 8 + b[6] * 4 + b[7] * 2 + b[8]

ClampByte(x) == IF x < 0 THEN 0 ELSE IF x > 255 THEN 255 ELSE x

\* C1: with a setup on distinct pins in effect, read with channel 0 or 1
\* returns an integer in [0,255] (two of them with return_both) whatever
\* bits the data pin returns; with any other channel, read raises ValueError
\* and returns nothing.
C1_ReadRange ==
    Returned(ReadNames) /\ DeviceOpen =>
        /\ (last.channel \in {0, 1} /\ SetUp) =>
              /\ last.exc = "none"
              /\ Len(last.value) = (IF last.both THEN 2 ELSE 1)
              /\ \A i \in 1..Len(last.value) : last.value[i] \in 0..255
        /\ last.channel \notin {0, 1} =>
              /\ last.exc = "ValueError"
              /\ last.value = << >>

C1_Witness ==
    /\ Returned({"read"}) /\ last.channel = 1 /\ ~last.both
    /\ last.exc = "none" /\ last.value = << 255 >>

\* C2: when the data pin returns the same 8 bits b1..b8 in the first and in
\* the second sample read of a transaction, read returns the value with b1
\* as the most significant bit and b8 as the least significant (10110010
\* gives 178, 01111111 gives 127).
C2_EqualSamples ==
    (Returned(ReadNames) /\ last.exc = "none" /\ ~last.both
        /\ Len(last.got) = 16 /\ First = Second) =>
        /\ last.value = << MsbFirst(First) >>
        /\ First = << 1, 0, 1, 1, 0, 0, 1, 0 >> => last.value = << 178 >>
        /\ First = << 0, 1, 1, 1, 1, 1, 1, 1 >> => last.value = << 127 >>

C2_Witness ==
    /\ Returned({"read"}) /\ last.exc = "none" /\ ~last.both
    /\ First = << 1, 0, 1, 1, 0, 0, 1, 0 >> /\ Second = First
    /\ last.value = << 178 >>

\* C3: when the two samples of a transaction differ, the transaction is not
\* repeated (16 bits are sampled in all); read returns the first sample
\* clamped to [0,255], and read with return_both returns both samples as
\* they were read.
C3_Mismatch ==
    (Returned(ReadNames) /\ last.exc = "none"
        /\ Len(last.got) >= 16 /\ MsbFirst(First) # MsbFirst(Second)) =>
        /\ Len(last.got) = 16
        /\ ~last.both => last.value = << ClampByte(MsbFirst(First)) >>
        /\ last.both => last.value = << MsbFirst(First), MsbFirst(Second) >>

C3_Witness ==
    /\ Returned({"read"}) /\ last.exc = "none" /\ ~last.both
    /\ First = << 1, 0, 1, 1, 0, 0, 1, 0 >> /\ Second = << 1, 0, 1, 1, 0, 0, 0, 1 >>
    /\ last.value = << 178 >>

\* positions of the completed call's trace holding an operation of kind o on pin p
At(o, p) == { i \in 1..Len(last.trace) : last.trace[i].op = o /\ last.trace[i].pin = p }

\* positions holding a write of level l to pin p
Writes(p, l) == { i \in At("output", p) : last.trace[i].level = l }

Sleeps == { i \in 1..Len(last.trace) : last.trace[i].op = "sleep" }

\* positions holding a pin level write or a direction change
IsTransition(e) == e.op \in {"output", "setup_out", "setup_in"}
Transitions == { i \in 1..Len(last.trace) : IsTransition(last.trace[i]) }

\* clock rising edges, and the falling edges that follow one
Rises == Writes(CLK_PIN, HIGH)
Falls == { i \in Writes(CLK_PIN, LOW) : \E j \in Rises : j < i }

\* a read or read_both call went through its transaction on distinct pins
Transacted == Returned(ReadNames) /\ last.exc = "none" /\ DistinctPins

\* C4: in the trace of every transaction, chip-select is driven low before
\* the first clock rising edge and driven high only after the last clock
\* falling edge, and the data pin is switched from output to input exactly
\* once, after exactly 3 control bits were driven and clocked out.
C4_Sequencing ==
    Transacted =>
        /\ Rises # {} /\ Writes(CS_PIN, HIGH) # {}
        /\ \E i \in Writes(CS_PIN, LOW) : \A j \in Rises : i < j
        /\ \A h \in Writes(CS_PIN, HIGH) :
              /\ \A j \in Rises \cup Falls : j < h
              /\ \A i \in Writes(CS_PIN, LOW) : i < h
        /\ Cardinality(At("setup_in", DIO_PIN)) = 1
        /\ \A h \in At("setup_in", DIO_PIN) :
              /\ \E j \in At("setup_out", DIO_PIN) : j < h
              /\ \A j \in At("setup_out", DIO_PIN) : j < h
              /\ Cardinality({ j \in At("output", DIO_PIN) : j < h }) = 3
              /\ \A j \in At("output", DIO_PIN) : j < h
              /\ Cardinality({ j \in Rises : j < h }) = 3
              /\ Cardinality({ j \in Falls : j < h }) = 3

C4_Witness ==
    /\ Transacted /\ last.op = "read" /\ last.channel = 1
    /\ Cardinality(At("setup_in", DIO_PIN)) = 1
    /\ Cardinality(Rises) > 3

\* from position j on, a delay comes before any pin level write or direction
\* change on pin p
RECURSIVE DelayedBeforeSamePin(_, _)
DelayedBeforeSamePin(p, j) ==
    \/ j > Len(last.trace)
    \/ last.trace[j].op = "sleep"
    \/ /\ ~(IsTransition(last.trace[j]) /\ last.trace[j].pin = p)
       /\ DelayedBeforeSamePin(p, j + 1)

\* C5 as stated: in the trace of setup and of every transaction, no two
\* signal transitions (pin level writes or direction changes) follow one
\* another without a delay between them.
C5_Original ==
    (Returned(ReadNames \cup SetupNames) /\ DistinctPins) =>
        \A i \in Transitions : (i + 1) \notin Transitions

\* C5 as amended: in the trace of every transaction, two operations on the
\* same pin always have a delay between them and every write to the clock
\* pin is followed at once by a delay; setup delays once, after its last
\* pin operation.
C5_ClockDelays ==
    /\ (Returned(ReadNames) /\ DistinctPins) =>
          /\ \A i \in Transitions : DelayedBeforeSamePin(last.trace[i].pin, i + 1)
          /\ \A i \in At("output", CLK_PIN) : (i + 1) \in Sleeps
    /\ Returned(SetupNames) =>
          /\ Sleeps = { Len(last.trace) }
          /\ Transitions # {}

C5_Witness ==
    /\ Transacted /\ last.op = "dev_read"
    /\ \E i \in Transitions : (i + 1) \in Transitions
    /\ \E i \in Rises : (i + 1) \in Sleeps

\* C6 as stated: every transaction ends by switching the data pin back to
\* output and driving it low, raising chip-select and waiting one delay, so
\* that after read returns the data pin is an output at low level, the clock
\* is low and chip-select is high.
C6_Original ==
    Transacted =>
        /\ gpio_dir[DIO_PIN] = "out" /\ gpio_lvl[DIO_PIN] = LOW
        /\ gpio_lvl[CLK_PIN] = LOW
        /\ gpio_lvl[CS_PIN] = HIGH

\* C6 as amended: every transaction ends with chip-select raised and then
\* one delay, and leaves the data pin in input mode: after read returns,
\* chip-select is an output at high level, the clock an output at low level
\* and the data pin an input.
C6_Deselect ==
    Transacted =>
        /\ Len(last.trace) >= 2
        /\ (Len(last.trace) - 1) \in Writes(CS_PIN, HIGH)
        /\ Len(last.trace) \in Sleeps
        /\ gpio_dir[DIO_PIN] = "in"
        /\ gpio_dir[CS_PIN] = "out" /\ gpio_lvl[CS_PIN] = HIGH
        /\ gpio_dir[CLK_PIN] = "out" /\ gpio_lvl[CLK_PIN] = LOW

C6_Witness ==
    /\ Transacted /\ last.op = "read" /\ last.channel = 0
    /\ gpio_dir[DIO_PIN] = "in" /\ gpio_lvl[CS_PIN] = HIGH

C8_SetupRejectsDuplicates ==
    (Returned(SetupNames) /\ ~DistinctPins) =>
        /\ last.exc # "none"
        /\ Transitions = {}

\* teardown has been called twice in a row on the same object
TornDownTwice ==
    Returned(TeardownNames) /\ prev.op = last.op /\ prev.dev = last.dev

\* C9 as stated: the second of two teardown calls in a row raises nothing,
\* performs no pin-controller operation and changes no pin.
C9_Original ==
    TornDownTwice =>
        last.exc = "none" /\ last.trace = << >> /\ ~last.changed

\* C9 as amended: the second of two teardown calls in a row raises nothing.
\* The second close of a device performs no pin-controller operation; the
\* second cleanup calls the pin controller's release again and nothing else,
\* and changes no pin when the first call's release succeeded.
C9_Idempotent ==
    TornDownTwice =>
        /\ last.exc = "none"
        /\ last.op = "dev_close" => last.trace = << >> /\ ~last.changed
        /\ last.op = "cleanup" =>
              /\ \A i \in 1..Len(last.trace) : last.trace[i].op = "cleanup"
              /\ ~prev.caught => ~last.changed

C9_Witness ==
    /\ TornDownTwice /\ last.op = "cleanup" /\ ~prev.caught
    /\ Len(last.trace) = 1 /\ ~last.changed

\* C10 as stated: teardown drives chip-select high and data and clock low,
\* then releases the three pins and leaves the driver released.
C10_Original ==
    Returned(TeardownNames) =>
        /\ Writes(CS_PIN, HIGH) # {} /\ Writes(CLK_PIN, LOW) # {} /\ Writes(DIO_PIN, LOW) # {}
        /\ gpio_mode = "UNSET"

\* C10 as amended: teardown writes no pin level.  cleanup, and close on an
\* open device, call the pin controller's release and nothing else; once the
\* release has taken effect every pin is unconfigured and the numbering mode
\* is cleared, whatever state the driver was in.  close leaves the device
\* closed, and on a closed device does nothing.
C10_Teardown ==
    Returned(TeardownNames) =>
        /\ \A i \in 1..Len(last.trace) : last.trace[i].op = "cleanup"
        /\ last.trace # << >> =>
              gpio_mode = "UNSET" /\ \A p \in Pins : gpio_dir[p] = "none"
        /\ last.trace = << >> => ~last.changed
        /\ (last.op = "cleanup" /\ ~last.caught) => Len(last.trace) = 1
        /\ last.op = "dev_close" => dev[last.dev] = "closed"

C10_Witness ==
    /\ Returned({"dev_close"}) /\ ~last.caught /\ last.changed
    /\ Len(last.trace) = 1 /\ gpio_mode = "UNSET"
    /\ dev[last.dev] = "closed"

\* C11: after setup (or the constructor of a device) returns for three
\* distinct pins, whatever the state before it, the three pins it was given
\* are outputs, chip-select at high level, clock and data at low level; the
\* module's pin assignment is the pins given; and the call ended with one
\* delay, made right after its last pin write.
C11_SetupPost ==
    (Returned(SetupNames) /\ DistinctPins) =>
        /\ last.exc = "none"
        /\ last.pins = << CS_PIN, CLK_PIN, DIO_PIN >>
        /\ \A i \in 1..3 : gpio_dir[last.pins[i]] = "out"
        /\ gpio_lvl[last.pins[1]] = HIGH
        /\ gpio_lvl[last.pins[2]] = LOW
        /\ gpio_lvl[last.pins[3]] = LOW
        /\ Sleeps = { Len(last.trace) }
        /\ (Len(last.trace) - 1) \in At("output", last.pins[3])

\* a second setup, on other pins than the setup in effect before it
C11_Witness ==
    /\ Returned({"setup"}) /\ DistinctPins /\ last.exc = "none"
    /\ last.before.mode = "BCM"
    /\ last.before.pins = << DefaultCS, DefaultCLK, DefaultDIO >>
    /\ last.pins = << DefaultCLK, DefaultDIO, DefaultCS >>
    /\ last.changed
    /\ gpio_lvl[DefaultCLK] = HIGH /\ gpio_dir[DefaultCS] = "out"

\* the positions of the writes to the data pin, and the k-th of them
DataWrites == At("output", DIO_PIN)
DataWrite(k) ==
    CHOOSE i \in DataWrites : Cardinality({ j \in DataWrites : j < i }) = k - 1

\* the position where the data pin is switched to input
Release == CHOOSE h \in At("setup_in", DIO_PIN) : TRUE

\* between positions i and h the clock is written exactly twice: raised
\* once and then lowered once
ClockedOnce(i, h) ==
    \E r, f \in At("output", CLK_PIN) :
        /\ i < r /\ r < f /\ f < h
        /\ last.trace[r].level = HIGH /\ last.trace[f].level = LOW
        /\ { j \in At("output", CLK_PIN) : i < j /\ j < h } = { r, f }

\* C12: in every transaction for channel c, the data pin is written exactly
\* three times, all while it is an output (after it was made one and before
\* it is switched to input), with the levels 1, 1, c in this order; each
\* write is followed by exactly one clock pulse (the clock raised, then
\* lowered) before the next write, the third before the switch to input.
\* The second bit (the mode bit) is never 0.
C12_ControlBits ==
    Transacted =>
        /\ Cardinality(DataWrites) = 3
        /\ At("setup_in", DIO_PIN) # {}
        /\ \A i \in DataWrites :
              /\ i < Release
              /\ \E j \in At("setup_out", DIO_PIN) : j < i
        /\ last.trace[DataWrite(1)].level = 1
        /\ last.trace[DataWrite(2)].level = 1
        /\ last.trace[DataWrite(3)].level = last.channel
        /\ ClockedOnce(DataWrite(1), DataWrite(2))
        /\ ClockedOnce(DataWrite(2), DataWrite(3))
        /\ ClockedOnce(DataWrite(3), Release)

C12_Witness ==
    /\ Transacted /\ last.op = "dev_read_both" /\ last.channel = 0
    /\ Cardinality(DataWrites) = 3
    /\ last.trace[DataWrite(2)].level = 1
    /\ last.trace[DataWrite(3)].level = 0
    /\ ClockedOnce(DataWrite(3), Release)

\* two calls performed the same pin operations and delays, sampled the same
\* bits, left the pin controller in the same state and raised the same
\* error (or none)
SameTransaction(a, b) ==
    /\ a.exc = b.exc
    /\ a.m.n = b.m.n
    /\ Trace(a.ops, a.m.n, a.P) = Trace(b.ops, b.m.n, b.P)
    /\ a.m.got = b.m.got
    /\ a.m.mode = b.m.mode /\ a.m.dir = b.m.dir /\ a.m.lvl = b.m.lvl

\* read returns one value and read_both two, the first of them that value
DifferInValueOnly(a, b) ==
    a.exc = "none" =>
        Len(a.value) = 1 /\ Len(b.value) = 2 /\ a.value[1] = b.value[1]

\* C13: whenever the caller is about to call, for every channel and every
\* bit stream of the converter, read(channel) and read(channel,
\* return_both=True) perform the same pin operations and delays and raise
\* the same error or none, and so do d.read(channel) and
\* d.read_both(channel) on every device d; when they return, read_both
\* returns a pair and read one value.
C13_ReadBothSame ==
    pc = "idle" =>
        \A c \in Channels, din \in TestStreams :
            /\ \E a \in { ReadCall(c, FALSE, Machine(din, "ok"), Globals) },
                  b \in { ReadCall(c, TRUE, Machine(din, "ok"), Globals) } :
                    SameTransaction(a, b) /\ DifferInValueOnly(a, b)
            /\ \A d \in Devices :
                  dev[d] # "absent" =>
                    \E a \in { DevReadCall(d, c, FALSE, Machine(din, "ok"), Globals) },
                       b \in { DevReadCall(d, c, TRUE, Machine(din, "ok"), Globals) } :
                         SameTransaction(a, b) /\ DifferInValueOnly(a, b)

\* a device is open on distinct pins, and its read and read_both go through
\* the whole transaction and return different things
C13_Witness ==
    /\ pc = "idle" /\ SetUp /\ dev["A"] = "open"
    /\ \E din \in TestStreams :
         \E a \in { DevReadCall("A", 1, FALSE, Machine(din, "ok"), Globals) },
            b \in { DevReadCall("A", 1, TRUE, Machine(din, "ok"), Globals) } :
              /\ a.exc = "none" /\ a.m.n = Len(ReadOps(1))
              /\ SameTransaction(a, b)
              /\ a.value = << 178 >> /\ b.value = << 178, 127 >>

\* C14: cleanup, close and __exit__ return normally whether the pin
\* controller's release succeeds, fails before releasing or fails after
\* releasing; after close and __exit__ the device is closed.
C14_TeardownNeverRaises ==
    Returned({"cleanup", "dev_close", "dev_exit"}) =>
        /\ last.exc = "none"
        /\ last.dev # "none" => dev[last.dev] = "closed"

\* __exit__ on an open device, the release failing before it released anything
C14_Witness ==
    /\ Returned({"dev_exit"}) /\ last.caught /\ last.trace = << >>
    /\ gpio_mode = "BCM"
    /\ last.exc = "none" /\ dev[last.dev] = "closed"

\* the pins of a bus as a set
BusPins(d) == { BusOf[d][i] : i \in 1..3 }

\* C15: with each device created on a bus of its own, a read of an open
\* device with a valid channel goes through its transaction on that device's
\* pins and touches no other pin; and after a device is closed, the pins of
\* the other device, if that one is open, are still configured.
C15_NoInterference ==
    /\ (Returned(ReadNames) /\ last.dev # "none" /\ dev[last.dev] = "open"
            /\ last.channel \in {0, 1}) =>
          /\ last.exc = "none"
          /\ last.pins = BusOf[last.dev]
          /\ \A i \in 1..Len(last.trace) :
                last.trace[i].op # "sleep" => last.trace[i].pin \in BusPins(last.dev)
    /\ (Returned({"dev_close", "dev_exit"}) /\ last.dev # "none") =>
          \A e \in Devices \ {last.dev} :
              dev[e] = "open" =>
                  gpio_mode = "BCM" /\ \A q \in BusPins(e) : gpio_dir[q] # "none"

\* thread t is inside read() and has driven chip-select low
Asserted(t) == InTransaction(thr[t]) /\ gpio_lvl[CS_PIN] = LOW

\* thread t is in the same read(), past its write of chip-select high
Raised(t) ==
    /\ thr[t].op = "read" /\ thr[t].phase \in {"running", "done"}
    /\ thr[t].at >= Deselect(thr[t])
    /\ gpio_lvl[CS_PIN] = HIGH

\* C16: a read that has driven chip-select low does not end before it has
\* driven chip-select high and made its last delay; once chip-select is
\* driven low it is eventually driven high by the same call; and every call
\* that has started eventually ends.
C16_DrivenToDeselect ==
    /\ [](\A t \in Threads :
            (thr[t].op = "read" /\ thr[t].phase = "done" /\ thr[t].at >= 1) =>
                /\ thr[t].exc = "none"
                /\ thr[t].at = Len(OpsOf(thr[t]))
                /\ gpio_lvl[CS_PIN] = HIGH)
    /\ \A t \in Threads : Asserted(t) ~> Raised(t)
    /\ \A t \in Threads : (thr[t].phase = "running") ~> (thr[t].phase = "done")

\* a read with a valid channel has ended, after it drove chip-select low
\* and then high
C16_Witness ==
    /\ thr["T1"].op = "read" /\ thr["T1"].phase = "done" /\ thr["T1"].channel = 1
    /\ thr["T1"].at = Len(ReadOps(1)) /\ thr["T1"].exc = "none"
    /\ Raised("T1")

\* a setup has completed: the numbering mode is set and no first setup is
\* still in progress
AfterSetup ==
    /\ gpio_mode = "BCM"
    /\ \A t \in Threads :
          ~(thr[t].phase = "running" /\ thr[t].op = "setup"
                /\ thr[t].alone.before.mode = "UNSET")

\* some thread is inside a call of one of these operations
InProgress(names) == \E t \in Threads : thr[t].phase = "running" /\ thr[t].op \in names

\* C17 as stated: once a setup has completed, whatever setup and read calls
\* follow, chip-select is high and the clock low whenever no call is in
\* progress; chip-select is low only while a read is in progress; and the
\* clock is high only while chip-select is low.
C17_Original ==
    AfterSetup =>
        /\ ~InProgress({"read", "setup"}) =>
              gpio_lvl[CS_PIN] = HIGH /\ gpio_lvl[CLK_PIN] = LOW
        /\ gpio_lvl[CS_PIN] = LOW => InProgress({"read"})
        /\ gpio_lvl[CLK_PIN] = HIGH => gpio_lvl[CS_PIN] = LOW

\* C17 as amended: once a setup has completed, whatever setup and read calls
\* follow, chip-select is an output at high level and the clock an output at
\* low level whenever no call is in progress; and while no setup is in
\* progress, chip-select is low only while a read is in progress and the
\* clock is high only while chip-select is low.  (A setup in progress has
\* chip-select low after configuring it, and finds the pins it was given at
\* the levels their earlier use left.)
C17_Idle ==
    AfterSetup =>
        /\ ~InProgress({"read", "setup"}) =>
              /\ gpio_dir[CS_PIN] = "out" /\ gpio_lvl[CS_PIN] = HIGH
              /\ gpio_dir[CLK_PIN] = "out" /\ gpio_lvl[CLK_PIN] = LOW
        /\ ~InProgress({"setup"}) =>
              /\ gpio_lvl[CS_PIN] = LOW => InProgress({"read"})
              /\ gpio_lvl[CLK_PIN] = HIGH => gpio_lvl[CS_PIN] = LOW

\* a setup on the pins already set up is in progress and has chip-select low
C17_Witness ==
    /\ AfterSetup
    /\ thr["T2"].phase = "running" /\ thr["T2"].op = "setup"
    /\ thr["T2"].alone.before.pins = thr["T2"].alone.pins
    /\ gpio_dir[CS_PIN] = "out" /\ gpio_lvl[CS_PIN] = LOW

\* the completed call's writes to the clock pin and samples of the data pin
IsClockOrSample(e) ==
    \/ e.op = "output" /\ e.pin = CLK_PIN
    \/ e.op = "input" /\ e.pin = DIO_PIN

\* "R" the clock written high, "L" the clock written low, "S" the data pin
\* sampled
ClockCode(e) ==
    IF e.op = "input" THEN "S" ELSE IF e.level = HIGH THEN "R" ELSE "L"

ClockAndSamples ==
    LET es == SelectSeq(last.trace, IsClockOrSample)
    IN [i \in 1..Len(es) |-> ClockCode(es[i])]

\* a clock pulse without a sample and one with a sample while the clock is high
PlainPulse == << "R", "L" >>
SamplePulse == << "R", "S", "L" >>

\* C18: in every transaction the clock is first written low (twice), then
\* pulsed exactly 20 times: 3 pulses without a sample (the control bits,
\* before the data pin is switched to input), 8 pulses with one sample each
\* taken while the clock is high, 1 pulse without a sample (the gap), and 8
\* pulses with one sample each.  The data pin is sampled 16 times in all,
\* each time after it was switched to input and never made an output again.
C18_Pulses ==
    Transacted =>
        /\ ClockAndSamples =
              << "L", "L" >> \o Repeat(PlainPulse, 3) \o Repeat(SamplePulse, 8)
                  \o PlainPulse \o Repeat(SamplePulse, 8)
        /\ Cardinality(Rises) = 20 /\ Cardinality(Falls) = 20
        /\ Cardinality(At("input", DIO_PIN)) = 16
        /\ Len(last.got) = 16
        /\ At("setup_in", DIO_PIN) # {}
        /\ Cardinality({ r \in Rises : r < Release }) = 3
        /\ \A i \in At("input", DIO_PIN) : Release < i
        /\ \A j \in At("setup_out", DIO_PIN) : j < Release
        /\ gpio_dir[DIO_PIN] = "in"

C18_Witness ==
    /\ Transacted /\ last.op = "dev_read" /\ last.channel = 1
    /\ Cardinality(Rises) = 20
    /\ Cardinality(At("input", DIO_PIN)) = 16
    /\ Len(ClockAndSamples) = 58

\* the completed read was made on a closed device, or with a channel other
\* than 0 and 1
OnClosedDevice == last.dev # "none" /\ dev[last.dev] = "closed"
Rejected == Returned(ReadNames) /\ (OnClosedDevice \/ last.channel \notin {0, 1})

\* C19: a read or read_both on a closed device raises RuntimeError, and on
\* the module or an open device with a channel other than 0 and 1 raises
\* ValueError; either way the call performs no pin operation and no delay,
\* samples nothing, and leaves the numbering mode, every pin's direction and
\* level and the module's pin assignment as they were.
C19_RejectedTouchesNothing ==
    Rejected =>
        /\ last.exc = (IF OnClosedDevice THEN "RuntimeError" ELSE "ValueError")
        /\ last.value = << >>
        /\ last.trace = << >> /\ last.got = << >>
        /\ ~last.changed
        /\ last.before.mode = gpio_mode
        /\ last.before.pins = << CS_PIN, CLK_PIN, DIO_PIN >>

\* a bad channel rejected while a setup on distinct pins is in effect
C19_Witness ==
    /\ Rejected /\ ~OnClosedDevice /\ SetUp
    /\ last.op = "read" /\ last.channel = 2
    /\ gpio_dir[CS_PIN] = "out" /\ gpio_lvl[CS_PIN] = HIGH
    /\ last.exc = "ValueError" /\ last.trace = << >>

\* C20: when the callers take the lock around every call, at most one call
\* is in progress, no transaction has a pin operation of another thread
\* between its chip-select low and its chip-select high, and every read
\* performs the pin operations, samples the bits and ends with the result
\* or the error that the same call has when nothing runs beside it.
\* (Without the lock an interleaving in which a transaction is hit by the
\* other thread's pin operations is reachable: C20_Witness.)
C20_Serialized ==
    sched.locking =>
        /\ Cardinality({ t \in Threads : thr[t].phase # "idle" }) <= 1
        /\ \A t \in Threads :
              /\ ~thr[t].hit
              /\ (thr[t].op = "read" /\ thr[t].phase = "running") =>
                    /\ thr[t].at < thr[t].alone.n
                    /\ thr[t].got = SubSeq(thr[t].alone.got, 1, Len(thr[t].got))
              /\ (thr[t].op = "read" /\ thr[t].phase = "done") =>
                    /\ thr[t].exc = thr[t].alone.exc
                    /\ thr[t].value = thr[t].alone.value
                    /\ thr[t].got = thr[t].alone.got
                    /\ thr[t].at = thr[t].alone.n

\* without the lock: the read of T1 has ended after the other thread's pin
\* operations fell between its chip-select low and chip-select high
C20_Witness ==
    /\ ~sched.locking
    /\ thr["T1"].op = "read" /\ thr["T1"].phase = "done" /\ thr["T1"].hit
    /\ thr["T2"].op = "read" /\ thr["T2"].at >= 1

====
